---- MODULE Spec2Model ----
(***************************************************************************)
(* Model of AP_MotorsHeli_RSC (libraries/AP_Motors/AP_MotorsHeli_RSC.cpp), *)
(* the rotor speed controller of the traditional-helicopter motor library. *)
(*                                                                         *)
(* Numbers.  The C++ code computes in float.  The model computes in exact  *)
(* fixed point:                                                            *)
(*   - _rotor_ramp_output, _rotor_runup_output, _critical_speed are kept   *)
(*     in units of 1/RampOne;                                              *)
(*   - _control_output, _idle_output, _desired_speed, _power_output_* and  *)
(*     the PID output are kept in units of 1/One;                          *)
(*   - _load_feedforward is kept in units of 1/FfOne;                      *)
(*   - dt is kept in milliseconds, timestamps in microseconds.             *)
(* The input sets below are chosen so that every product and quotient the  *)
(* code forms is exact in these units; float rounding is not modelled.     *)
(*                                                                         *)
(* Time.  output() reads only the difference now - _last_update_us (and    *)
(* whether _last_update_us is 0), so the model keeps the stored timestamp  *)
(* normalised to FirstNow after every call and draws now from              *)
(* _last_update_us + Elapsed.                                              *)
(***************************************************************************)
EXTENDS Integers, Sequences, FiniteSets, TLC

\* ---------------------------------------------------------------- units
RampOne == 2000
One == 200000
FfOne == 10

\* ------------------------------------------------------ enumerations
ROTOR_CONTROL_STOP == "STOP"
ROTOR_CONTROL_IDLE == "IDLE"
ROTOR_CONTROL_ACTIVE == "ACTIVE"
RotorControlState == {ROTOR_CONTROL_STOP, ROTOR_CONTROL_IDLE, ROTOR_CONTROL_ACTIVE}

ROTOR_CONTROL_MODE_DISABLED == "DISABLED"
ROTOR_CONTROL_MODE_SPEED_PASSTHROUGH == "SPEED_PASSTHROUGH"
ROTOR_CONTROL_MODE_SPEED_SETPOINT == "SPEED_SETPOINT"
ROTOR_CONTROL_MODE_OPEN_LOOP_POWER_OUTPUT == "OPEN_LOOP_POWER_OUTPUT"
ROTOR_CONTROL_MODE_GOVERNOR == "GOVERNOR"
RotorControlMode ==
    { ROTOR_CONTROL_MODE_DISABLED, ROTOR_CONTROL_MODE_SPEED_PASSTHROUGH,
      ROTOR_CONTROL_MODE_SPEED_SETPOINT, ROTOR_CONTROL_MODE_OPEN_LOOP_POWER_OUTPUT,
      ROTOR_CONTROL_MODE_GOVERNOR }

\* ------------------------------------------------- input sets explored
\* microseconds between two calls of output()
Elapsed == {100000, 200000, 500000}
\* first value AP_HAL::micros64() returns to output()
FirstNow == 1000000
\* configured times, seconds (0 is an unset parameter, -1 a wrongly set one)
RampTimes == {-1, 0, 2}
RunupTimes == {-1, 0, 2}
\* critical speed, units of 1/RampOne: 0.5 and 1.0
CriticalSpeeds == {1000, 2000}
\* idle output and desired speed, units of 1/One: 0.1 and 1.0
IdleOutputs == {20000}
DesiredSpeeds == {200000}
\* load feed-forward, units of 1/FfOne: -1.0 and +1.0
LoadFeedforwards == {-10, 10}
\* <<pwm_min, pwm_max, pwm_rev>>
PwmConfigs == {<<1000, 2000, 1>>, <<1000, 2000, -1>>}
\* arguments of set_power_output_range: <<low, high, negc, slewrate>>, the power
\* levels in units of 1/One: 0.2, 0.8, 0.8 (both sides of the V-curve alike),
\* 0.2, 0.8, 0.6 with a slew rate, and a high power level of 2.0
PowerSettings ==
    { <<40000, 160000, 160000, 0>>, <<40000, 160000, 120000, 500>>,
      <<40000, 400000, 120000, 0>> }
\* arguments of set_gov_enable: <<enabled, rpm, deadband, rpm_feedback>>
GovSettings == {<<FALSE, 0, 0, 0>>, <<TRUE, 1500, 50, 1490>>, <<TRUE, 1500, 50, 1400>>}
\* values AC_PID::get_pid() may return, units of 1/One: -0.5 and 1.5
PidOutputs == {-100000, 300000}

\* longest run of equal Active ticks that is followed tick by tick
MaxRun == 22
\* number of calls of output() counted from construction
MaxTicks == 22
\* spacing of the calls counted from construction, microseconds
ScenarioElapsed == 100 * 1000

\* value of the output channel before any write
NoPwm == -1
\* command recorded before the first call of output()
NoState == "NONE"

VARIABLES
    \* configuration
    control_mode, idle_output, desired_speed, critical_speed, ramp_time, runup_time,
    pwm_min, pwm_max, pwm_rev, pid_rotor_gov, load_feedforward,
    power_output_low, power_output_high, power_output_negc, power_slewrate,
    gov_enabled, governor_rpm_setpoint, governor_rpm_deadband, rpm_feedback,
    \* running state
    control_output, rotor_ramp_output, rotor_runup_output, runup_complete, last_update_us,
    \* the last call of output(): its argument and the branch that set _control_output
    state, branch,
    \* collaborators: calls made to the PID controller and to the output channel
    \* during the last call of output(), and the last value written to the channel
    pid_calls, rsc_writes, rsc_pwm,
    \* history: the run of Active ticks with one dt that started with ramp and
    \* run-up at 0 (its length and its dt), and the number of calls of output()
    \* since construction while all were Active and ScenarioElapsed apart
    run_n, run_dt, scen_ticks

config == <<control_mode, idle_output, desired_speed, critical_speed,
            pwm_min, pwm_max, pwm_rev, pid_rotor_gov, load_feedforward>>
power == <<power_output_low, power_output_high, power_output_negc, power_slewrate>>
gov == <<gov_enabled, governor_rpm_setpoint, governor_rpm_deadband, rpm_feedback>>
running == <<control_output, rotor_ramp_output, rotor_runup_output, runup_complete,
             last_update_us, ramp_time, runup_time>>
call == <<state, branch>>
collab == <<pid_calls, rsc_writes, rsc_pwm>>
history == <<run_n, run_dt, scen_ticks>>
vars == <<config, power, gov, running, call, collab, history>>

\* ------------------------------------------------------------ helpers
Abs(x) == IF x < 0 THEN -x ELSE x

\* float -> integer conversion truncates toward zero
Trunc(n, d) == IF n >= 0 THEN n \div d ELSE -((-n) \div d)

constrain_float(amt, low, high) ==
    IF amt < low THEN low ELSE IF amt > high THEN high ELSE amt

\* ramp (1/RampOne) times a value in 1/One, in 1/One
MulRamp(r, v) == (r * v) \div RampOne

\* value in 1/One times the load feed-forward (1/FfOne), in 1/One
MulLoad(v, f) == (v * f) \div FfOne

\* dt / time: dt in ms, time in s, result in 1/RampOne
Rate(d, time) == (d * RampOne) \div (1000 * time)

\* ------------------------------------------------- update_rotor_ramp
\* sanity check ramp time
CheckedRampTime(t) == IF t <= 0 THEN 1 ELSE t

\* mutant: the ramp increment ignores the ramp time
update_rotor_ramp_unit_time(ramp, runup, rotor_ramp_input, d, t) ==
    IF ramp < rotor_ramp_input
    THEN LET jumped == IF ramp < runup THEN runup ELSE ramp
             stepped == jumped + Rate(d, 1)
         IN  IF stepped > rotor_ramp_input THEN rotor_ramp_input ELSE stepped
    ELSE rotor_ramp_input

\* mutant: the ramp climbs from its own value, never from the run-up estimate
update_rotor_ramp_no_resume(ramp, runup, rotor_ramp_input, d, t) ==
    IF ramp < rotor_ramp_input
    THEN LET stepped == ramp + Rate(d, t)
         IN  IF stepped > rotor_ramp_input THEN rotor_ramp_input ELSE stepped
    ELSE rotor_ramp_input

\* new _rotor_ramp_output; t is the checked ramp time
update_rotor_ramp(ramp, runup, rotor_ramp_input, d, t) ==
    IF ramp < rotor_ramp_input
    THEN LET jumped == IF ramp < runup THEN runup ELSE ramp
             stepped == jumped + Rate(d, t)
         IN  IF stepped > rotor_ramp_input THEN rotor_ramp_input ELSE stepped
    ELSE rotor_ramp_input

\* ------------------------------------------------ update_rotor_runup
\* mutant: the run-up time is not raised to the ramp time
CheckedRunupTime_alone(t, rt) == IF t <= 0 THEN 1 ELSE t

\* sanity check runup time; rt is the (already checked) ramp time
CheckedRunupTime(t, rt) ==
    LET a == IF t < rt THEN rt ELSE t
    IN  IF a <= 0 THEN 1 ELSE a

\* mutant: the run-up estimate never comes down
update_rotor_runup_no_decay(runup, ramp, d, t) ==
    LET runup_increment == Rate(d, t)
    IN  IF runup < ramp
        THEN LET up == runup + runup_increment IN IF up > ramp THEN ramp ELSE up
        ELSE runup

\* mutant: the last step up, shorter than an increment, is not taken
update_rotor_runup_whole_steps(runup, ramp, d, t) ==
    LET runup_increment == Rate(d, t)
    IN  IF runup < ramp
        THEN LET up == runup + runup_increment IN IF up > ramp THEN runup ELSE up
        ELSE LET down == runup - runup_increment IN IF down < ramp THEN ramp ELSE down

\* mutant: the way up is not clamped to the ramp
update_rotor_runup_overshoot(runup, ramp, d, t) ==
    LET runup_increment == Rate(d, t)
    IN  IF runup < ramp
        THEN runup + runup_increment
        ELSE LET down == runup - runup_increment IN IF down < ramp THEN ramp ELSE down

\* new _rotor_runup_output; ramp is the new _rotor_ramp_output, t the checked runup time
update_rotor_runup(runup, ramp, d, t) ==
    LET runup_increment == Rate(d, t)
    IN  IF runup < ramp
        THEN LET up == runup + runup_increment
             IN  IF up > ramp THEN ramp ELSE up
        ELSE LET down == runup - runup_increment
             IN  IF down < ramp THEN ramp ELSE down

get_rotor_speed(runup) == runup

\* mutant: no latch, the flag follows "ramp and run-up at full speed"
update_runup_complete_no_latch(complete, mode, ramp, runup, critical) ==
    IF mode = ROTOR_CONTROL_MODE_DISABLED
    THEN TRUE
    ELSE LET c1 == ramp >= RampOne /\ runup >= RampOne
         IN  IF c1 /\ get_rotor_speed(runup) <= critical THEN FALSE ELSE c1

\* mutant: run-up complete as soon as the ramp alone is at full speed
update_runup_complete_ramp_only(complete, mode, ramp, runup, critical) ==
    IF mode = ROTOR_CONTROL_MODE_DISABLED
    THEN TRUE
    ELSE LET c1 == IF ~complete /\ ramp >= RampOne THEN TRUE ELSE complete
         IN  IF c1 /\ get_rotor_speed(runup) <= critical THEN FALSE ELSE c1

\* new _runup_complete; ramp and runup are the values after this call's moves
update_runup_complete(complete, mode, ramp, runup, critical) ==
    IF mode = ROTOR_CONTROL_MODE_DISABLED
    THEN TRUE
    ELSE LET c1 == IF ~complete /\ ramp >= RampOne /\ runup >= RampOne
                   THEN TRUE ELSE complete
         IN  IF c1 /\ get_rotor_speed(runup) <= critical THEN FALSE ELSE c1

\* ------------------------------------------- power output strategies
\* idle + ramp * (desired - idle)
speed_control_output(ramp, idle, desired) == idle + MulRamp(ramp, desired - idle)

\* mutant: a negative load lowers the output below the baseline
calc_open_loop_power_control_output_odd(ramp, idle, low, high, negc, load) ==
    IF load >= 0
    THEN LET range == high - low
         IN  idle + MulRamp(ramp, (low - idle) + MulLoad(range, load))
    ELSE LET range == negc - low
         IN  idle + MulRamp(ramp, (low - idle) + MulLoad(range, load))

calc_open_loop_power_control_output(ramp, idle, low, high, negc, load) ==
    IF load >= 0
    THEN LET range == high - low
         IN  idle + MulRamp(ramp, (low - idle) + MulLoad(range, load))
    ELSE LET range == negc - low
         IN  idle + MulRamp(ramp, (low - idle) - MulLoad(range, load))

\* mutant: the controller is used without the NULL check
closed_loop_uses_pid_unchecked(pid) == TRUE

\* whether calc_closed_loop_power_control_output reaches the PID controller
closed_loop_uses_pid(pid) == pid

\* pid_get is what AC_PID::get_pid() returns if it is called
calc_closed_loop_power_control_output(pid, enabled, pid_get, open_loop) ==
    IF ~closed_loop_uses_pid(pid)
    THEN open_loop
    ELSE LET pid_output == IF enabled THEN pid_get ELSE 0
         IN  constrain_float(pid_output, 0, One)

\* fabs(_governor_rpm_setpoint - _rpm_feedback) < _governor_rpm_deadband
in_deadband(setpoint, feedback, deadband) == Abs(setpoint - feedback) < deadband

\* mutant: the enabled governor always runs the closed loop, deadband or not
output_branch_no_hold(st, mode, enabled, setpoint, feedback, deadband) ==
    IF st = ROTOR_CONTROL_STOP THEN "stop"
    ELSE IF st = ROTOR_CONTROL_IDLE THEN "idle"
    ELSE IF mode \in {ROTOR_CONTROL_MODE_SPEED_PASSTHROUGH, ROTOR_CONTROL_MODE_SPEED_SETPOINT}
    THEN "speed"
    ELSE IF mode = ROTOR_CONTROL_MODE_OPEN_LOOP_POWER_OUTPUT
    THEN "open_loop"
    ELSE IF mode = ROTOR_CONTROL_MODE_GOVERNOR
    THEN IF ~enabled THEN "speed" ELSE "closed_loop"
    ELSE "none"

\* which branch of the switch on the command sets _control_output
output_branch(st, mode, enabled, setpoint, feedback, deadband) ==
    IF st = ROTOR_CONTROL_STOP THEN "stop"
    ELSE IF st = ROTOR_CONTROL_IDLE THEN "idle"
    ELSE IF mode \in {ROTOR_CONTROL_MODE_SPEED_PASSTHROUGH, ROTOR_CONTROL_MODE_SPEED_SETPOINT}
    THEN "speed"
    ELSE IF mode = ROTOR_CONTROL_MODE_OPEN_LOOP_POWER_OUTPUT
    THEN "open_loop"
    ELSE IF mode = ROTOR_CONTROL_MODE_GOVERNOR
    THEN IF ~enabled THEN "speed"
         ELSE IF in_deadband(setpoint, feedback, deadband) THEN "hold"
         ELSE "closed_loop"
    ELSE "none"

\* _control_output as the switch on the command leaves it
\* (ramp is the new _rotor_ramp_output, last the snapshot of _control_output)
mode_control_output(br, ramp, last, pid_get) ==
    LET open_loop == calc_open_loop_power_control_output(ramp, idle_output,
                        power_output_low, power_output_high, power_output_negc,
                        load_feedforward)
    IN  CASE br = "stop" -> 0
          [] br = "idle" -> idle_output
          [] br = "speed" -> speed_control_output(ramp, idle_output, desired_speed)
          [] br = "open_loop" -> open_loop
          [] br = "hold" -> last
          [] br = "closed_loop" ->
                calc_closed_loop_power_control_output(pid_rotor_gov, gov_enabled,
                                                      pid_get, open_loop)
          [] OTHER -> last

\* mutant: only a rise of the output is limited
slew_limit_rise_only(out, last, d, slewrate) ==
    IF slewrate > 0
    THEN LET max_delta == d * slewrate * (One \div 100000)
         IN  IF out > last + max_delta THEN last + max_delta ELSE out
    ELSE out

\* slew rate for throttle: d in ms, slewrate * 0.01 per second
slew_limit(out, last, d, slewrate) ==
    IF slewrate > 0
    THEN LET max_delta == d * slewrate * (One \div 100000)
         IN  constrain_float(out, last - max_delta, last + max_delta)
    ELSE out

\* ---------------------------------------------------------- write_rsc
\* float -> uint16_t: defined for values in (-1, 65536), undefined otherwise
\* (the builds saturate or wrap)
ToUint16(n, d) ==
    LET q == Trunc(n, d)
    IN  IF q >= 0 /\ q < 65536 THEN {q} ELSE {0, 65535, q % 65536}

\* mutant: write_rsc writes in every control mode
rsc_writes_channel_always(mode) == TRUE

\* whether write_rsc reaches SRV_Channels::set_output_pwm
rsc_writes_channel(mode) == mode # ROTOR_CONTROL_MODE_DISABLED

\* mutant: the reversed polarity is ignored
rsc_pwm_values_forward_only(servo_out, min, max, rev) ==
    { (min + pwm) % 65536 : pwm \in ToUint16(servo_out * (max - min), One) }

\* the values write_rsc may hand to SRV_Channels::set_output_pwm
rsc_pwm_values(servo_out, min, max, rev) ==
    { IF rev >= 0 THEN (min + pwm) % 65536 ELSE (max - pwm) % 65536 :
        pwm \in ToUint16(servo_out * (max - min), One) }

\* ------------------------------------------------------------- Init
Init ==
    /\ control_mode \in RotorControlMode
    /\ idle_output \in IdleOutputs
    /\ desired_speed \in DesiredSpeeds
    \* the configured times and critical speeds are explored in speed-passthrough
    \* mode; the other modes run with both times unset and the lower critical speed
    /\ critical_speed \in IF control_mode = ROTOR_CONTROL_MODE_SPEED_PASSTHROUGH
                            THEN CriticalSpeeds ELSE {RampOne \div 2}
    /\ ramp_time \in IF control_mode = ROTOR_CONTROL_MODE_SPEED_PASSTHROUGH
                       THEN RampTimes ELSE {0}
    /\ runup_time \in IF control_mode = ROTOR_CONTROL_MODE_SPEED_PASSTHROUGH
                        THEN RunupTimes ELSE {0}
    /\ \E p \in PwmConfigs : pwm_min = p[1] /\ pwm_max = p[2] /\ pwm_rev = p[3]
    \* the PID controller is read in governor mode only: elsewhere one value
    \* stands for both; both signs of the load are explored in open-loop mode
    /\ pid_rotor_gov \in IF control_mode = ROTOR_CONTROL_MODE_GOVERNOR
                           THEN BOOLEAN ELSE {FALSE}
    /\ load_feedforward \in IF control_mode = ROTOR_CONTROL_MODE_OPEN_LOOP_POWER_OUTPUT
                              THEN LoadFeedforwards ELSE {FfOne}
    /\ power_output_low = 0 /\ power_output_high = 0 /\ power_output_negc = 0
    /\ power_slewrate = 0
    /\ gov_enabled = FALSE /\ governor_rpm_setpoint = 0
    /\ governor_rpm_deadband = 0 /\ rpm_feedback = 0
    /\ control_output = 0 /\ rotor_ramp_output = 0 /\ rotor_runup_output = 0
    /\ runup_complete = FALSE
    /\ last_update_us = 0
    /\ state = NoState /\ branch = "none"
    /\ pid_calls = 0 /\ rsc_writes = 0 /\ rsc_pwm = NoPwm
    /\ run_n = 0 /\ run_dt = 0 /\ scen_ticks = 0

\* ---------------------------------------------------------- setters
set_power_output_range(power_low, power_high, power_negc, slewrate) ==
    /\ power_output_low' = power_low
    /\ power_output_high' = power_high
    /\ power_output_negc' = power_negc
    /\ power_slewrate' = slewrate
    /\ UNCHANGED <<config, gov, running, call, collab, history>>

set_gov_enable(enabled, rpm, deadband, feedback) ==
    /\ gov_enabled' = enabled
    /\ governor_rpm_setpoint' = rpm
    /\ governor_rpm_deadband' = deadband
    /\ rpm_feedback' = feedback
    /\ UNCHANGED <<config, power, running, call, collab, history>>

\* ------------------------------------------------------------ output
\* mutant: the first call runs with a nominal 0.1 s instead of 1 ms
output_dt_nominal_first(now) ==
    IF last_update_us = 0 THEN 100 ELSE (now - last_update_us) \div 1000

\* mutant: a long gap between two calls counts as 0.1 s
output_dt_capped(now) ==
    IF last_update_us = 0 THEN 1
    ELSE IF (now - last_update_us) \div 1000 > 100 THEN 100
    ELSE (now - last_update_us) \div 1000

\* dt in ms: 1 ms on the first call, the time since the last call afterwards
output_dt(now) ==
    IF last_update_us = 0 THEN 1 ELSE (now - last_update_us) \div 1000

\* history: length of the run of Active ticks in speed-passthrough mode that
\* began with ramp and run-up at 0 and had the same dt on every tick
next_run_n(st, d) ==
    IF st = ROTOR_CONTROL_ACTIVE /\ control_mode = ROTOR_CONTROL_MODE_SPEED_PASSTHROUGH
    THEN IF rotor_ramp_output = 0 /\ rotor_runup_output = 0 THEN 1
         ELSE IF run_n > 0 /\ run_n < MaxRun /\ d = run_dt THEN run_n + 1
         ELSE 0
    ELSE 0

\* history: calls of output() since construction, counted while every call was
\* Active and came ScenarioElapsed after the one before; -1 once that is broken
next_scen_ticks(st, now) ==
    IF /\ scen_ticks >= 0 /\ scen_ticks < MaxTicks
       /\ st = ROTOR_CONTROL_ACTIVE
       /\ (last_update_us = 0 \/ now - last_update_us = ScenarioElapsed)
    THEN scen_ticks + 1
    ELSE -1

output(st, now, pid_get) ==
    LET d == output_dt(now)
        last == control_output
        rt == CheckedRampTime(ramp_time)
        target == IF st = ROTOR_CONTROL_ACTIVE THEN RampOne ELSE 0
        ramp == update_rotor_ramp(rotor_ramp_output, rotor_runup_output, target, d, rt)
        br == output_branch(st, control_mode, gov_enabled, governor_rpm_setpoint,
                            rpm_feedback, governor_rpm_deadband)
        uses_pid == br = "closed_loop" /\ closed_loop_uses_pid(pid_rotor_gov)
        out == mode_control_output(br, ramp, last, pid_get)
        ut == CheckedRunupTime(runup_time, rt)
        runup == update_rotor_runup(rotor_runup_output, ramp, d, ut)
        slewed == slew_limit(out, last, d, power_slewrate)
    IN  /\ last_update_us' = FirstNow
        /\ state' = st
        /\ branch' = br
        /\ ramp_time' = rt
        /\ rotor_ramp_output' = ramp
        /\ runup_time' = ut
        /\ rotor_runup_output' = runup
        /\ runup_complete' = update_runup_complete(runup_complete, control_mode, ramp,
                                                   runup, critical_speed)
        /\ control_output' = slewed
        /\ pid_calls' = IF uses_pid THEN 2 ELSE 0
        /\ IF rsc_writes_channel(control_mode)
           THEN /\ rsc_pwm' \in rsc_pwm_values(slewed, pwm_min, pwm_max, pwm_rev)
                /\ rsc_writes' = 1
           ELSE /\ rsc_pwm' = rsc_pwm
                /\ rsc_writes' = 0
        /\ run_n' = next_run_n(st, d)
        /\ run_dt' = IF next_run_n(st, d) = 0 THEN 0 ELSE d
        /\ scen_ticks' = next_scen_ticks(st, now)
        /\ UNCHANGED <<config, power, gov>>

\* the times AP_HAL::micros64() may return to the next call
Nows == IF last_update_us = 0 THEN {FirstNow} ELSE {last_update_us + e : e \in Elapsed}

\* what AC_PID::get_pid() may return to the next call (nothing is asked of a
\* controller that is not attached)
PidReturns == IF pid_rotor_gov THEN PidOutputs ELSE {0}

OutputStop == \E now \in Nows, p \in PidReturns : output(ROTOR_CONTROL_STOP, now, p)
OutputIdle == \E now \in Nows, p \in PidReturns : output(ROTOR_CONTROL_IDLE, now, p)
OutputActive == \E now \in Nows, p \in PidReturns : output(ROTOR_CONTROL_ACTIVE, now, p)

SetPowerOutputRange ==
    \E r \in PowerSettings : set_power_output_range(r[1], r[2], r[3], r[4])

SetGovEnable ==
    \E g \in GovSettings : set_gov_enable(g[1], g[2], g[3], g[4])

Next ==
    \/ OutputStop
    \/ OutputIdle
    \/ OutputActive
    \/ SetPowerOutputRange
    \/ SetGovEnable

Spec == Init /\ [][Next]_vars

\* ------------------------------------------------------------ claims
Min(a, b) == IF a < b THEN a ELSE b

\* some call of output()
IsOutput == OutputStop \/ OutputIdle \/ OutputActive

\* C1: after every call of output(), rotor_ramp_output, rotor_runup_output and
\* control_output each lie in [0,1].
C1_OutputsInUnitRange ==
    state # NoState =>
        /\ rotor_ramp_output >= 0 /\ rotor_ramp_output <= RampOne
        /\ rotor_runup_output >= 0 /\ rotor_runup_output <= RampOne
        /\ control_output >= 0 /\ control_output <= One

\* C2: a call of output() with the Stop command leaves control_output at exactly 0.
C2_StopForcesZero ==
    state = ROTOR_CONTROL_STOP => control_output = 0

\* C3: every PWM value handed to the output channel lies in [pwm_min, pwm_max].
C3_PwmInRange ==
    rsc_pwm # NoPwm => (rsc_pwm >= pwm_min /\ rsc_pwm <= pwm_max)

\* C4: once runup_complete is true it stays true across every step that leaves
\* rotor_runup_output above critical_speed, whatever the command and the ramp.
C4_RunupCompleteLatched ==
    [][(runup_complete /\ rotor_runup_output' > critical_speed') => runup_complete']_vars

\* C4 witness: run-up complete after a Stop or Idle tick with the ramp back at 0
\* and the run-up estimate below 1 but above the critical speed.
C4_Witness ==
    /\ runup_complete
    /\ control_mode # ROTOR_CONTROL_MODE_DISABLED
    /\ state \in {ROTOR_CONTROL_STOP, ROTOR_CONTROL_IDLE}
    /\ rotor_ramp_output = 0
    /\ rotor_runup_output < RampOne
    /\ rotor_runup_output > critical_speed

\* C5: an Active tick in governor mode with the governor enabled and the RPM
\* error inside the deadband leaves control_output as it was and makes no call
\* to the PID controller, whatever the slew rate.
C5_DeadbandHold ==
    [][(/\ OutputActive
        /\ control_mode = ROTOR_CONTROL_MODE_GOVERNOR
        /\ gov_enabled
        /\ Abs(governor_rpm_setpoint - rpm_feedback) < governor_rpm_deadband)
       => (control_output' = control_output /\ pid_calls' = 0)]_vars

\* C5 witness: the deadband branch has held a non-zero output with a PID
\* controller attached and a slew rate set.
C5_Witness ==
    /\ branch = "hold"
    /\ control_mode = ROTOR_CONTROL_MODE_GOVERNOR
    /\ gov_enabled
    /\ Abs(governor_rpm_setpoint - rpm_feedback) < governor_rpm_deadband
    /\ pid_rotor_gov
    /\ power_slewrate > 0
    /\ control_output > 0
    /\ rotor_ramp_output > 0

\* C6: every call of output() writes the channel exactly once when the control
\* mode is not disabled and never when it is disabled.
C6_OneWritePerCall ==
    /\ state # NoState =>
          rsc_writes = (IF control_mode = ROTOR_CONTROL_MODE_DISABLED THEN 0 ELSE 1)
    /\ control_mode = ROTOR_CONTROL_MODE_DISABLED => rsc_pwm = NoPwm
    /\ (state # NoState /\ control_mode # ROTOR_CONTROL_MODE_DISABLED) => rsc_pwm # NoPwm

\* C6 witness: the disabled mode after an Active tick that moved the ramp, with
\* the channel still untouched.
C6_Witness ==
    /\ control_mode = ROTOR_CONTROL_MODE_DISABLED
    /\ state = ROTOR_CONTROL_ACTIVE
    /\ rotor_ramp_output = RampOne
    /\ rsc_writes = 0
    /\ rsc_pwm = NoPwm

\* C7: a call of output() with the Idle command leaves control_output at exactly
\* idle_output.
C7_IdleOutput ==
    state = ROTOR_CONTROL_IDLE => control_output = idle_output

\* C8: runup_complete turns true only in a call of output() in disabled mode or
\* one that leaves ramp and run-up both at 1 or above; it turns false only in a
\* call of output() that leaves the run-up at or below critical_speed; the
\* setters never change it.
C8_RunupCompleteChanges ==
    [][/\ (~runup_complete /\ runup_complete') =>
              /\ IsOutput
              /\ \/ control_mode = ROTOR_CONTROL_MODE_DISABLED
                 \/ (rotor_ramp_output' >= RampOne /\ rotor_runup_output' >= RampOne)
       /\ (runup_complete /\ ~runup_complete') =>
              (IsOutput /\ rotor_runup_output' <= critical_speed')
       /\ (SetGovEnable \/ SetPowerOutputRange) => runup_complete' = runup_complete]_vars

\* C8 witness: run-up complete at the end of a run of Active ticks that began
\* with ramp and run-up at 0 (where it was false), in a mode that is not disabled.
C8_Witness ==
    /\ runup_complete
    /\ run_n > 0
    /\ control_mode # ROTOR_CONTROL_MODE_DISABLED
    /\ rotor_ramp_output = RampOne
    /\ rotor_runup_output = RampOne

\* C9: in speed-passthrough mode, n Active ticks with the same dt, starting with
\* ramp and run-up at 0, leave rotor_ramp_output at min(1, n*dt/ramp_time).
C9_RampAfterNTicks ==
    run_n > 0 =>
        rotor_ramp_output = Min(RampOne, (run_n * run_dt * RampOne) \div (1000 * ramp_time))

\* C9 witness: five ticks of 0.1 s into such a run with ramp_time 2 s, the ramp
\* at 0.25.
C9_Witness ==
    /\ run_n = 5 /\ run_dt = 100 /\ ramp_time = 2
    /\ rotor_ramp_output = RampOne \div 4

\* the configuration of the run-up scenario: ramp_time 2 s, runup_time 2 s,
\* idle_output 0.1, desired_speed 1.0, speed-passthrough, critical_speed < 1
Scenario ==
    /\ control_mode = ROTOR_CONTROL_MODE_SPEED_PASSTHROUGH
    /\ ramp_time = 2 /\ runup_time = 2
    /\ idle_output = One \div 10 /\ desired_speed = One
    /\ critical_speed < RampOne

\* C10 as stated: from rest, 20 Active ticks 0.1 s apart bring rotor_ramp_output
\* to 1.0 and runup_complete to true at tick 20 and not earlier.
C10_RunupAtTick20 ==
    Scenario =>
        /\ scen_ticks = 20 => (rotor_ramp_output = RampOne /\ runup_complete)
        /\ (scen_ticks >= 1 /\ scen_ticks < 20) =>
              (rotor_ramp_output < RampOne /\ ~runup_complete)

\* C10 as amended: from rest, Active ticks 0.1 s apart bring rotor_ramp_output to
\* 1.0 and runup_complete to true at tick 21 and not earlier (the first tick
\* runs with dt = 1 ms).
C10_RunupAtTick21 ==
    Scenario =>
        /\ scen_ticks = 21 => (rotor_ramp_output = RampOne /\ runup_complete)
        /\ (scen_ticks >= 1 /\ scen_ticks < 21) =>
              (rotor_ramp_output < RampOne /\ ~runup_complete)

\* C10 witness: tick 21 of the scenario, run-up complete.
C10_Witness ==
    /\ Scenario /\ scen_ticks = 21
    /\ rotor_ramp_output = RampOne /\ rotor_runup_output = RampOne
    /\ runup_complete

\* ------------------------------------------------------------ C11
\* load magnitudes the two sides of the V-curve are compared at, units of
\* 1/FfOne: 0, 0.5 and 1.0
SymmetryLoads == {0, 5, 10}

\* what calc_open_loop_power_control_output() returns in this state for a load
open_loop_at(load) ==
    calc_open_loop_power_control_output(rotor_ramp_output, idle_output,
        power_output_low, power_output_high, power_output_negc, load)

\* idle + ramp * (low - idle), the output at load 0
open_loop_baseline == idle_output + MulRamp(rotor_ramp_output, power_output_low - idle_output)

\* both sides of the V-curve have the same range
SymmetricCurve ==
    power_output_high - power_output_low = power_output_negc - power_output_low

\* C11 as stated: with high - low = negc - low the open-loop outputs for loads
\* +x and -x lie mirrored around the baseline idle + ramp * (low - idle), one as
\* far above it as the other is below, for every x >= 0.
C11_MirrorAroundBaseline ==
    SymmetricCurve =>
        \A x \in SymmetryLoads :
            open_loop_at(x) - open_loop_baseline = open_loop_baseline - open_loop_at(-x)

\* C11 as amended: with high - low = negc - low the open-loop outputs for loads
\* +x and -x are the same value, baseline + ramp * (high - low) * x, for every
\* x >= 0: the curve is mirrored around load 0, where it is at the baseline, and
\* both sides lie above the baseline.
C11_EqualBothSides ==
    SymmetricCurve =>
        \A x \in SymmetryLoads :
            /\ open_loop_at(x) = open_loop_at(-x)
            /\ open_loop_at(x) = open_loop_baseline
                   + MulRamp(rotor_ramp_output,
                             MulLoad(power_output_high - power_output_low, x))

\* C11 witness: an Active tick in open-loop mode at load -1.0 on a symmetric
\* curve put out the value of load +1.0, above the baseline.
C11_Witness ==
    /\ branch = "open_loop" /\ SymmetricCurve
    /\ power_output_high > power_output_low
    /\ rotor_ramp_output > 0 /\ rotor_ramp_output < RampOne
    /\ load_feedforward = -FfOne /\ power_slewrate = 0
    /\ control_output = open_loop_at(FfOne)
    /\ control_output > open_loop_baseline

\* ------------------------------------------------------------ C12
\* <<pwm_min, pwm_max>> pairs write_rsc() is evaluated at besides the configured
\* one, and the polarities
PwmRanges == {<<1000, 1000>>, <<1000, 2000>>, <<1100, 1900>>, <<0, 2000>>}
PwmPolarities == {-1, 0, 1}

\* the pulse width at one end of the range
pwm_end(low_end, min, max, rev) ==
    IF rev >= 0 THEN (IF low_end THEN min ELSE max) ELSE (IF low_end THEN max ELSE min)

\* C12: when the mode is not disabled, write_rsc() turns command 0 into pwm_min
\* and command 1 into pwm_max when pwm_rev >= 0, and command 0 into pwm_max and
\* command 1 into pwm_min when pwm_rev < 0, for every pwm_min <= pwm_max.
C12_PwmEndPoints ==
    /\ (state # NoState /\ control_mode # ROTOR_CONTROL_MODE_DISABLED) =>
          /\ control_output = 0 => rsc_pwm = pwm_end(TRUE, pwm_min, pwm_max, pwm_rev)
          /\ control_output = One => rsc_pwm = pwm_end(FALSE, pwm_min, pwm_max, pwm_rev)
    /\ \A r \in PwmRanges, rev \in PwmPolarities :
          /\ rsc_pwm_values(0, r[1], r[2], rev) = {pwm_end(TRUE, r[1], r[2], rev)}
          /\ rsc_pwm_values(One, r[1], r[2], rev) = {pwm_end(FALSE, r[1], r[2], rev)}

\* C12 witness: a tick with reversed polarity wrote pwm_min for command 1.
C12_Witness ==
    /\ state = ROTOR_CONTROL_ACTIVE /\ control_mode # ROTOR_CONTROL_MODE_DISABLED
    /\ control_output = One /\ pwm_rev < 0 /\ pwm_min < pwm_max
    /\ rsc_writes = 1 /\ rsc_pwm = pwm_min

\* ------------------------------------------------------------ C13
\* what the switch on the command computes in a call output(st, now, pid_get)
\* made in this state, before the slew limit
mode_computed(st, now, pid_get) ==
    LET ramp == update_rotor_ramp(rotor_ramp_output, rotor_runup_output,
                    IF st = ROTOR_CONTROL_ACTIVE THEN RampOne ELSE 0,
                    output_dt(now), CheckedRampTime(ramp_time))
        br == output_branch(st, control_mode, gov_enabled, governor_rpm_setpoint,
                            rpm_feedback, governor_rpm_deadband)
    IN  mode_control_output(br, ramp, control_output, pid_get)

\* dt * _power_slewrate * 0.01 of a call made at now, units of 1/One
slew_max_delta(now) == output_dt(now) * power_slewrate * (One \div 100000)

\* C13: when power_slewrate > 0, every call of output() leaves control_output
\* within dt * power_slewrate * 0.01 of its value before the call, whatever the
\* command and the control mode; when power_slewrate is 0 the call leaves
\* control_output at the value the switch on the command computed.
C13_SlewBound ==
    [][\A st \in RotorControlState, now \in Nows, p \in PidReturns :
          output(st, now, p) =>
              IF power_slewrate > 0
              THEN Abs(control_output' - control_output) <= slew_max_delta(now)
              ELSE control_output' = mode_computed(st, now, p)]_vars

\* C13 witness: a Stop tick under a slew rate left the output above 0, and the
\* channel was written with it.
C13_Witness ==
    /\ state = ROTOR_CONTROL_STOP /\ power_slewrate > 0
    /\ control_output > 0 /\ control_output < idle_output
    /\ rsc_writes = 1

\* ------------------------------------------------------------ C14
Max(a, b) == IF a > b THEN a ELSE b

\* the ramp target output() hands to update_rotor_ramp() for a command
rotor_ramp_input_of(st) == IF st = ROTOR_CONTROL_ACTIVE THEN RampOne ELSE 0

\* C14: every call of output() leaves rotor_ramp_output at
\* min(target, max(ramp, runup) + dt / ramp_time) if the ramp was below the
\* target and at the target otherwise (ramp_time as the call left it); so it is
\* 0 right after every Stop or Idle tick, and an Active tick that follows a Stop
\* tick continues from the run-up estimate, not from 0.
C14_RampReference ==
    [][\A st \in RotorControlState, now \in Nows, p \in PidReturns :
          output(st, now, p) =>
              LET target == rotor_ramp_input_of(st)
                  inc == Rate(output_dt(now), ramp_time')
              IN  /\ rotor_ramp_output' =
                        IF rotor_ramp_output < target
                        THEN Min(target, Max(rotor_ramp_output, rotor_runup_output) + inc)
                        ELSE target
                  /\ st # ROTOR_CONTROL_ACTIVE => rotor_ramp_output' = 0
                  /\ (st = ROTOR_CONTROL_ACTIVE /\ state = ROTOR_CONTROL_STOP) =>
                        rotor_ramp_output' = Min(RampOne, rotor_runup_output + inc)]_vars

\* C14 witness: with a ramp time of 1 s and a run-up time of 2 s the ramp moves
\* in even steps and the run-up estimate reaches odd values, so an odd ramp
\* value was taken over from the run-up estimate by an Active tick.
C14_Witness ==
    /\ state = ROTOR_CONTROL_ACTIVE
    /\ ramp_time = 1 /\ runup_time = 2
    /\ rotor_ramp_output % 2 = 1
    /\ rotor_ramp_output > rotor_runup_output /\ rotor_ramp_output < RampOne

\* ------------------------------------------------------------ C15
\* C15: an Active tick in governor mode with the governor enabled, the rpm error
\* outside the deadband and no PID controller attached leaves control_output at
\* the slew-limited open-loop value of that same tick, asks nothing of a
\* controller, and ends like every tick: run-up estimate moved, channel written.
C15_NoPidFallsBack ==
    [][\A now \in Nows, p \in PidReturns :
          ( /\ output(ROTOR_CONTROL_ACTIVE, now, p)
            /\ control_mode = ROTOR_CONTROL_MODE_GOVERNOR
            /\ gov_enabled
            /\ ~in_deadband(governor_rpm_setpoint, rpm_feedback, governor_rpm_deadband)
            /\ ~pid_rotor_gov ) =>
              LET d == output_dt(now)
                  open_loop == calc_open_loop_power_control_output(rotor_ramp_output',
                                   idle_output, power_output_low, power_output_high,
                                   power_output_negc, load_feedforward)
              IN  /\ control_output' = slew_limit(open_loop, control_output, d, power_slewrate)
                  /\ pid_calls' = 0
                  /\ rotor_runup_output' =
                        update_rotor_runup(rotor_runup_output, rotor_ramp_output', d, runup_time')
                  /\ rsc_writes' = 1
                  /\ rsc_pwm' \in rsc_pwm_values(control_output', pwm_min, pwm_max, pwm_rev)
                  /\ last_update_us' # 0]_vars

\* C15 witness: such a tick put out the open-loop value, above idle, and wrote
\* the channel.
C15_Witness ==
    /\ branch = "closed_loop" /\ control_mode = ROTOR_CONTROL_MODE_GOVERNOR
    /\ ~pid_rotor_gov /\ gov_enabled
    /\ ~in_deadband(governor_rpm_setpoint, rpm_feedback, governor_rpm_deadband)
    /\ power_slewrate = 0 /\ power_output_high > power_output_low
    /\ rotor_ramp_output > 0 /\ rotor_runup_output > 0
    /\ control_output = open_loop_at(load_feedforward)
    /\ control_output > idle_output
    /\ pid_calls = 0 /\ rsc_writes = 1 /\ rsc_pwm # NoPwm

\* ------------------------------------------------------------ C16
\* C16: every call of output() leaves ramp_time >= 1 and runup_time >= ramp_time,
\* whatever the two were before (0 and negative included), and the ramp and the
\* run-up estimate it leaves are the ones computed by dividing by these checked
\* times, never by a time <= 0.
C16_TimesChecked ==
    [][\A st \in RotorControlState, now \in Nows, p \in PidReturns :
          output(st, now, p) =>
              /\ ramp_time' >= 1
              /\ runup_time' >= ramp_time'
              /\ rotor_ramp_output' =
                    update_rotor_ramp(rotor_ramp_output, rotor_runup_output,
                        rotor_ramp_input_of(st), output_dt(now), ramp_time')
              /\ rotor_runup_output' =
                    update_rotor_runup(rotor_runup_output, rotor_ramp_output',
                        output_dt(now), runup_time')]_vars

\* C16 witness: the first tick, Active, ran with both times at 1 s where only
\* 0, -1 and 2 are configured, and moved ramp and run-up by 1 ms / 1 s.
C16_Witness ==
    /\ control_mode = ROTOR_CONTROL_MODE_SPEED_PASSTHROUGH
    /\ scen_ticks = 1 /\ state = ROTOR_CONTROL_ACTIVE
    /\ ramp_time = 1 /\ runup_time = 1
    /\ rotor_ramp_output = Rate(1, 1) /\ rotor_runup_output = Rate(1, 1)

\* ------------------------------------------------------------ C17
\* the state the ramp and run-up estimators keep
rate_state ==
    [ramp |-> rotor_ramp_output, runup |-> rotor_runup_output,
     complete |-> runup_complete, ramp_time |-> ramp_time, runup_time |-> runup_time]

\* update_rotor_ramp() and update_rotor_runup() as one call of output() with
\* command st and elapsed time d (ms) applies them to s
rate_step(s, st, d) ==
    LET rt == CheckedRampTime(s.ramp_time)
        ramp == update_rotor_ramp(s.ramp, s.runup, rotor_ramp_input_of(st), d, rt)
        ut == CheckedRunupTime(s.runup_time, rt)
        runup == update_rotor_runup(s.runup, ramp, d, ut)
    IN  [ramp |-> ramp, runup |-> runup,
         complete |-> update_runup_complete(s.complete, control_mode, ramp, runup,
                                            critical_speed),
         ramp_time |-> rt, runup_time |-> ut]

\* C17: after the first tick, one call of output() that comes 2d after the call
\* before it leaves rotor_ramp_output, rotor_runup_output and runup_complete as
\* two calls with the same command and configuration, each d after the one
\* before, would have left them.
C17_MissedTickTransparent ==
    [][\A st \in RotorControlState, now \in Nows, p \in PidReturns :
          (last_update_us # 0 /\ output(st, now, p)) =>
              LET d == (now - last_update_us) \div 2000
              IN  rate_state' = rate_step(rate_step(rate_state, st, d), st, d)]_vars

\* C17 witness: from rest, two Active ticks 0.2 s apart with a ramp time of 2 s
\* brought ramp and run-up to 0.2, where four ticks 0.1 s apart bring them.
C17_Witness ==
    /\ run_n = 2 /\ run_dt = 200
    /\ ramp_time = 2 /\ runup_time = 2
    /\ rotor_ramp_output = RampOne \div 5 /\ rotor_runup_output = RampOne \div 5

\* ------------------------------------------------------------ C18
\* The ramp and run-up estimators read nothing set_power_output_range() and
\* set_gov_enable() write, so their long-run behaviour is followed through the
\* calls of output() alone. The scheduler runs output() on every loop with the
\* command of the moment: a tick that is due is eventually run.
StopOrIdle == OutputStop \/ OutputIdle

SpecStopped == Init /\ [][IsOutput]_vars /\ WF_vars(StopOrIdle)

\* C18: every Stop or Idle tick lowers rotor_runup_output by dt / runup_time, not
\* below 0, and keeps a false runup_complete false unless the mode is disabled;
\* if from some point on no tick is Active, rotor_runup_output eventually is 0
\* and stays 0, and unless the mode is disabled runup_complete eventually is
\* false and stays false.
C18_StoppedDecay ==
    /\ [][\A st \in {ROTOR_CONTROL_STOP, ROTOR_CONTROL_IDLE}, now \in Nows, p \in PidReturns :
            output(st, now, p) =>
                /\ rotor_runup_output' =
                      Max(0, rotor_runup_output - Rate(output_dt(now), runup_time'))
                /\ (control_mode # ROTOR_CONTROL_MODE_DISABLED /\ ~runup_complete) =>
                      ~runup_complete']_vars
    /\ (<>[][~OutputActive]_vars) =>
          <>[](/\ rotor_runup_output = 0
               /\ control_mode # ROTOR_CONTROL_MODE_DISABLED => ~runup_complete)

\* C18 witness: an Idle tick on the way down, the run-up estimate at or below
\* the critical speed and above 0, run-up not complete.
C18_Witness ==
    /\ state = ROTOR_CONTROL_IDLE /\ control_mode # ROTOR_CONTROL_MODE_DISABLED
    /\ rotor_ramp_output = 0
    /\ rotor_runup_output > 0 /\ rotor_runup_output <= critical_speed
    /\ critical_speed < RampOne /\ runup_time = 2
    /\ ~runup_complete

\* ------------------------------------------------------------ C19
SpecSpinning == Init /\ [][IsOutput]_vars /\ WF_vars(OutputActive)

\* C19: unless the mode is disabled, runup_complete is never true with
\* critical_speed >= 1; if from some point on every tick is Active,
\* rotor_ramp_output and rotor_runup_output eventually are 1 and stay 1, and
\* with the mode not disabled and critical_speed < 1 runup_complete eventually
\* is true and stays true.
C19_RunupTerminates ==
    /\ []((control_mode # ROTOR_CONTROL_MODE_DISABLED /\ critical_speed >= RampOne) =>
             ~runup_complete)
    /\ (<>[][~StopOrIdle]_vars) =>
          <>[](/\ rotor_ramp_output = RampOne
               /\ rotor_runup_output = RampOne
               /\ (control_mode # ROTOR_CONTROL_MODE_DISABLED /\ critical_speed < RampOne) =>
                     runup_complete)

\* C19 witness: Active ticks brought ramp and run-up to 1 and completed the
\* run-up, in a run that was not Active throughout.
C19_Witness ==
    /\ state = ROTOR_CONTROL_ACTIVE /\ scen_ticks = -1
    /\ control_mode = ROTOR_CONTROL_MODE_SPEED_SETPOINT
    /\ critical_speed < RampOne
    /\ rotor_ramp_output = RampOne /\ rotor_runup_output = RampOne
    /\ runup_complete

\* ------------------------------------------------------------ C20
\* a call of output() in the same microsecond as the call before it: dt = 0
OutputSameInstant ==
    \E st \in RotorControlState, p \in PidReturns :
        last_update_us # 0 /\ output(st, last_update_us, p)

NextAnyDt ==
    \/ IsOutput
    \/ OutputSameInstant

SpecAnyDt == Init /\ [][NextAnyDt]_vars

\* C20: after every Active tick rotor_runup_output <= rotor_ramp_output; after
\* every Stop or Idle tick rotor_ramp_output is 0 and rotor_runup_output is not
\* below it; for every sequence of commands and every dt >= 0.
C20_RunupBehindRamp ==
    /\ state = ROTOR_CONTROL_ACTIVE => rotor_runup_output <= rotor_ramp_output
    /\ state \in {ROTOR_CONTROL_STOP, ROTOR_CONTROL_IDLE} =>
          (rotor_ramp_output = 0 /\ rotor_runup_output >= rotor_ramp_output)

\* C20 witness: an Active tick with the run-up estimate lagging behind a ramp
\* that was taken up from a run-up estimate left by earlier ticks.
C20_Witness ==
    /\ state = ROTOR_CONTROL_ACTIVE
    /\ ramp_time = 1 /\ runup_time = 2
    /\ rotor_runup_output > RampOne \div 2
    /\ rotor_runup_output < rotor_ramp_output
    /\ rotor_ramp_output < RampOne
    /\ ~runup_complete

====
